---- MODULE Spec2Model ----
(***************************************************************************)
(* A model of py_rrouge's GameMap (src/game/gamemap/gamemap.py): the      *)
(* procedural room-and-corridor generator that runs inside construction,  *)
(* the derived blocked layer and the per-tile content index.              *)
(*                                                                         *)
(* The program state is the class attribute GameMap.rooms (line 29: one   *)
(* list object that every GameMap instance appends to), the fields of the *)
(* GameMap instance most recently constructed, and the position of the    *)
(* running constructor (pc, attempt).  Random draws are inputs of the     *)
(* actions.  An exception that leaves the constructor (ValueError from    *)
(* randint on an empty range, IndexError from a write outside the grid)   *)
(* is the state pc = "error".                                             *)
(*                                                                         *)
(* MAX_ROOMS, MIN_SIZE and MAX_SIZE are 30, 6 and 10 in the source; they  *)
(* are scaled to 2, 2 and 3 here so that the state space is finite and    *)
(* small.  The scaling keeps what the code depends on: MIN_SIZE <         *)
(* MAX_SIZE, every room has a non-empty inner rectangle that holds its    *)
(* center, and a grid can host a MIN_SIZE room and not a MAX_SIZE one.    *)
(*                                                                         *)
(* The second half of the module models the Entity objects of             *)
(* src/game/entity.py (construction, spawn, place, move, the capabilities *)
(* attached to an Actor) and the Actions of src/game/action.py.           *)
(***************************************************************************)
EXTENDS Integers, Sequences, FiniteSets

VARIABLES rooms, width, height, tiles, blocked, visible, explored,
          tile_content, pc, attempt, maps, combat_stats,
          draws, first, registered, wiped,
          entities, fighter_hp, outcome, expected, origin

vars == <<rooms, width, height, tiles, blocked, visible, explored,
          tile_content, pc, attempt, maps, combat_stats,
          draws, first, registered, wiped,
          entities, fighter_hp, outcome, expected, origin>>

\* The state of the GameMap class and of its latest instance.
gamemap_state == <<rooms, width, height, tiles, blocked, visible, explored,
                   tile_content, pc, attempt, maps, combat_stats>>

\* History variables: they record what happened and no action reads them to
\* decide what the program does.
\*   draws       the random draws the running construction has consumed
\*   first       the first construction that returned: what it was given and
\*               what it produced (<<>> while there is none)
\*   registered  the <<entity, slot>> pairs registered since the last
\*               clear_content_index (the current turn's registrations)
\*   wiped       how many entities with combat stats the last
\*               clear_content_index removed
history == <<draws, first, registered, wiped>>

\* The Entity objects (src/game/entity.py) and the calls made on Actions
\* (src/game/action.py).
\*   entities    the Entity objects in the order they were created: x, y,
\*               parent, blocks_movement and children, which gives for every
\*               capability kind the reference of the attached capability
\*               object (NoRef: none attached)
\*   fighter_hp  the heap of Fighter objects: the mutable state (hit points) of
\*               the Fighter object behind each reference
\*   outcome     the last property or method of an Action that was evaluated
\*               and the error it raised ("none": it returned)
\* and their history:
\*   expected    per entity, what the calls made on it so far should have left:
\*               the coordinates and the map of its last place plus the deltas
\*               of the moves since (placed: place was called on it), and
\*               whether an AI capability is attached (ai)
\*   origin      per entity, the template it was spawned from (0: constructed)
entity_state == <<entities, fighter_hp, outcome, expected, origin>>

\* gamemap.py:23-25, scaled (see the header).
MAX_ROOMS == 2
MIN_SIZE == 2
MAX_SIZE == 3

\* game.tiles.TileType: WALL is the grid's default cell, which np.zeros makes 0.
WALL == 0
FLOOR == 1

\* Bounds of the model.
\*   MaxWidth     the larger of the two widths a construction is given
\*   MaxMaps      how many GameMaps one program run constructs
\*   MaxEntities  how many entity ids exist
\*   MaxContent   how many entries the content index holds at a time
MaxWidth == 6
MaxMaps == 2
MaxEntities == 2
MaxContent == 2
\*   MaxCoord     the largest coordinate an entity is given or moved to
\*   MaxClones    how many entities spawn creates
MaxCoord == 1
MaxClones == 1

\* The widths and heights constructions are given: the smallest that hosts a
\* MIN_SIZE room, and a larger one that hosts two rooms side by side.
Widths == {MIN_SIZE + 1, MaxWidth}
Heights == {MIN_SIZE + 1, 2 * (MIN_SIZE + 1)}
\* The grid of the replayed constructions: two MIN_SIZE rooms fit side by side.
ReplayWidth == 2 * (MIN_SIZE + 1)
ReplayHeight == MIN_SIZE + 2
\* The grid of the content index: the smallest that hosts a MIN_SIZE room.
IndexWidth == MIN_SIZE + 1
IndexHeight == MIN_SIZE + 1
Entities == 1..MaxEntities
\* Optional[EntityID]: entity ids are positive, 0 stands for None.
None == 0

Cells(w, h) == (0..(w - 1)) \X (0..(h - 1))

-----------------------------------------------------------------------------
\* Rect (game/gamemap/rect.py)

Rect(x, y, w, h) == [x1 |-> x, y1 |-> y, x2 |-> x + w, y2 |-> y + h]

center(r) == <<(r.x1 + r.x2) \div 2, (r.y1 + r.y2) \div 2>>

inner(r) == ((r.x1 + 1)..(r.x2 - 1)) \X ((r.y1 + 1)..(r.y2 - 1))

intersects(r, other) ==
    /\ r.x1 <= other.x2
    /\ r.x2 >= other.x1
    /\ r.y1 <= other.y2
    /\ r.y2 >= other.y1

-----------------------------------------------------------------------------
\* GameMap helpers

\* Mutant of idx: the row stride is the height.
idx_by_height(x, y) == (y * height) + x

idx(x, y) == (y * width) + x

in_bounds(x, y) == 0 <= x /\ x < width /\ 0 <= y /\ y < height

Min(a, b) == IF a <= b THEN a ELSE b
Max(a, b) == IF a >= b THEN a ELSE b

\* tcod.los.bresenham on the two legs of an L, which are axis-aligned: every
\* cell of the segment, both ends included.
bresenham(a, b) ==
    (Min(a[1], b[1])..Max(a[1], b[1])) \X (Min(a[2], b[2])..Max(a[2], b[2]))

\* Mutant of tunnel_corner: the tunnel does not bend, its corner is its start.
tunnel_corner_start(start, end, coin) == start

\* coin is rng.random() < 0.5
tunnel_corner(start, end, coin) ==
    IF coin THEN <<end[1], start[2]>> ELSE <<start[1], end[2]>>

tunnel_between(start, end, coin) ==
    bresenham(start, tunnel_corner(start, end, coin))
        \cup bresenham(tunnel_corner(start, end, coin), end)

\* Mutant of rejected: only the room accepted last is tested.
rejected_last_only(new_room) ==
    Len(rooms) # 0 /\ intersects(new_room, rooms[Len(rooms)])

\* any(new_room.intersects(other_room) for other_room in self.rooms)
rejected(new_room) == \E i \in 1..Len(rooms) : intersects(new_room, rooms[i])

\* self.tiles[cells] = FLOOR
carve(t, cells) == [c \in DOMAIN t |-> IF c \in cells THEN FLOOR ELSE t[c]]

-----------------------------------------------------------------------------
Init ==
    /\ rooms = <<>>
    /\ width = 0
    /\ height = 0
    /\ tiles = [c \in Cells(0, 0) |-> WALL]
    /\ blocked = [c \in Cells(0, 0) |-> FALSE]
    /\ visible = [c \in Cells(0, 0) |-> FALSE]
    /\ explored = [c \in Cells(0, 0) |-> FALSE]
    /\ tile_content = [i \in 0..(-1) |-> <<>>]
    /\ pc = "idle"
    /\ attempt = 0
    /\ maps = 0
    /\ combat_stats = {}
    /\ draws = <<>>
    /\ first = <<>>
    /\ registered = {}
    /\ wiped = 0
    /\ entities = <<>>
    /\ fighter_hp = <<>>
    /\ outcome = [call |-> "none", raised |-> "none", value |-> <<>>]
    /\ expected = <<>>
    /\ origin = <<>>

\* GameMap.__init__ up to the call of generate_map.  rooms is the class
\* attribute: the constructor does not rebind it.
NewGameMap(w, h) ==
    /\ pc \in {"idle", "done"}
    /\ width' = w
    /\ height' = h
    /\ tiles' = [c \in Cells(w, h) |-> 0]
    /\ tile_content' = [i \in 0..(w * h - 1) |-> <<>>]
    /\ blocked' = [c \in Cells(w, h) |-> FALSE]
    /\ visible' = [c \in Cells(w, h) |-> FALSE]
    /\ explored' = [c \in Cells(w, h) |-> FALSE]
    /\ pc' = "gen"
    /\ attempt' = 0
    /\ maps' = maps + 1
    /\ UNCHANGED <<rooms, combat_stats>>

\* The position after one iteration of the loop of generate_map: the loop ends,
\* and with it the constructor, after MAX_ROOMS iterations.
after_attempt == IF attempt + 1 = MAX_ROOMS THEN "done" ELSE "gen"

\* One iteration of generate_map in which randint(0, width - w - 1) or
\* randint(0, height - h - 1) is given an empty range and raises ValueError.
AttemptRaises(w, h) ==
    /\ pc = "gen"
    /\ attempt < MAX_ROOMS
    /\ (width - w - 1 < 0 \/ height - h - 1 < 0)
    /\ pc' = "error"
    /\ UNCHANGED <<rooms, width, height, tiles, blocked, visible, explored,
                   tile_content, attempt, maps, combat_stats>>

\* One iteration of generate_map with the draws w, h, x, y and, when a tunnel is
\* dug, the coin.
Attempt(w, h, x, y, coin) ==
    LET new_room == Rect(x, y, w, h) IN
    /\ pc = "gen"
    /\ attempt < MAX_ROOMS
    /\ x \in 0..(width - w - 1)
    /\ y \in 0..(height - h - 1)
    /\ IF rejected(new_room)
         THEN /\ attempt' = attempt + 1
              /\ pc' = after_attempt
              /\ UNCHANGED <<rooms, tiles>>
         ELSE IF Len(rooms) # 0
                   /\ ~in_bounds(center(rooms[Len(rooms)])[1], center(rooms[Len(rooms)])[2])
                THEN \* the first cell of the tunnel is outside the grid: IndexError
                     /\ tiles' = carve(tiles, inner(new_room))
                     /\ pc' = "error"
                     /\ UNCHANGED <<rooms, attempt>>
                ELSE /\ tiles' = carve(carve(tiles, inner(new_room)),
                                       IF Len(rooms) # 0
                                         THEN tunnel_between(center(rooms[Len(rooms)]),
                                                             center(new_room), coin)
                                         ELSE {})
                     /\ rooms' = Append(rooms, new_room)
                     /\ attempt' = attempt + 1
                     /\ pc' = after_attempt
    /\ UNCHANGED <<width, height, blocked, visible, explored, tile_content,
                   maps, combat_stats>>

\* Mutant of populate_blocked: the test is inverted.
populate_blocked_floor ==
    /\ pc = "done"
    /\ blocked' = [c \in DOMAIN tiles |-> tiles[c] = FLOOR]
    /\ UNCHANGED <<rooms, width, height, tiles, visible, explored, tile_content,
                   pc, attempt, maps, combat_stats>>

populate_blocked ==
    /\ pc = "done"
    /\ blocked' = [c \in DOMAIN tiles |-> tiles[c] = WALL]
    /\ UNCHANGED <<rooms, width, height, tiles, visible, explored, tile_content,
                   pc, attempt, maps, combat_stats>>

is_blocked(x, y) == blocked[<<x, y>>]

\* Mutant of clear_content_index: the first slot is skipped.
clear_content_index_skips_first ==
    /\ pc = "done"
    /\ tile_content' = [i \in DOMAIN tile_content |->
                            IF i = 0 THEN tile_content[i] ELSE <<>>]
    /\ UNCHANGED <<rooms, width, height, tiles, blocked, visible, explored,
                   pc, attempt, maps, combat_stats>>

clear_content_index ==
    /\ pc = "done"
    /\ tile_content' = [i \in DOMAIN tile_content |-> <<>>]
    /\ UNCHANGED <<rooms, width, height, tiles, blocked, visible, explored,
                   pc, attempt, maps, combat_stats>>

\* ecs.try_entity_component(entity, CombatStats)
has_combat_stats(entity) == entity \in combat_stats

\* Mutant of first_target: the scan keeps the last match instead of returning
\* at the first.
RECURSIVE first_target_keeps_last(_)
first_target_keeps_last(content) ==
    IF content = <<>> THEN None
    ELSE IF first_target_keeps_last(Tail(content)) # None
           THEN first_target_keeps_last(Tail(content))
    ELSE IF has_combat_stats(Head(content)) THEN Head(content)
    ELSE None

RECURSIVE first_target(_)
first_target(content) ==
    IF content = <<>> THEN None
    ELSE IF has_combat_stats(Head(content)) THEN Head(content)
    ELSE first_target(Tail(content))

get_target_at_location(x, y) == first_target(tile_content[idx(x, y)])

\* How many entries the content index holds.
RECURSIVE content_size(_)
content_size(slots) ==
    IF slots = {} THEN 0
    ELSE LET i == CHOOSE j \in slots : TRUE
         IN Len(tile_content[i]) + content_size(slots \ {i})

\* The registration of an entity on its tile, which the spec leaves to a
\* collaborator: it "writes into tile_content[idx(x,y)]".
register(entity, x, y) ==
    /\ pc = "done"
    /\ in_bounds(x, y)
    /\ content_size(DOMAIN tile_content) < MaxContent
    /\ tile_content' = [tile_content EXCEPT ![idx(x, y)] = Append(@, entity)]
    /\ UNCHANGED <<rooms, width, height, tiles, blocked, visible, explored,
                   pc, attempt, maps, combat_stats>>

-----------------------------------------------------------------------------
\* The generator: constructions on grids of the sizes in Widths and Heights.

Sizes == MIN_SIZE..MAX_SIZE

Construct ==
    /\ maps < MaxMaps
    /\ \E w \in Widths, h \in Heights : NewGameMap(w, h)
    /\ UNCHANGED history
    /\ UNCHANGED entity_state

GenerateRaises ==
    /\ \E w \in Sizes, h \in Sizes : AttemptRaises(w, h)
    /\ UNCHANGED history
    /\ UNCHANGED entity_state

Generate ==
    /\ \E w \in Sizes, h \in Sizes :
         \E x \in 0..(width - w - 1), y \in 0..(height - h - 1), coin \in BOOLEAN :
            Attempt(w, h, x, y, coin)
    /\ UNCHANGED history
    /\ UNCHANGED entity_state

PopulateBlocked ==
    populate_blocked /\ UNCHANGED history /\ UNCHANGED entity_state

Next ==
    \/ Construct
    \/ GenerateRaises
    \/ Generate
    \/ PopulateBlocked

Spec == Init /\ [][Next]_vars

-----------------------------------------------------------------------------
\* Replay: constructions of one size, with the draws each consumed recorded.

\* Whether this iteration draws the tunnel's coin: the room is accepted and is
\* not the first of the list.
draws_coin(w, h, x, y) == ~rejected(Rect(x, y, w, h)) /\ Len(rooms) # 0

Logged(entry) ==
    /\ draws' = Append(draws, entry)
    /\ first' = IF first = <<>> /\ pc' = "done"
                  THEN <<[width |-> width, height |-> height, draws |-> draws',
                          tiles |-> tiles', rooms |-> rooms']>>
                  ELSE first
    /\ UNCHANGED <<registered, wiped>>
    /\ UNCHANGED entity_state

ReplayConstruct ==
    /\ maps < MaxMaps
    /\ NewGameMap(ReplayWidth, ReplayHeight)
    /\ draws' = <<>>
    /\ UNCHANGED <<first, registered, wiped>>
    /\ UNCHANGED entity_state

ReplayGenerate ==
    \E w \in Sizes, h \in Sizes :
        \E x \in 0..(width - w - 1), y \in 0..(height - h - 1), coin \in BOOLEAN :
            /\ Attempt(w, h, x, y, coin)
            /\ Logged(IF draws_coin(w, h, x, y) THEN <<w, h, x, y, coin>>
                                                ELSE <<w, h, x, y>>)

NextReplay ==
    \/ ReplayConstruct
    \/ ReplayGenerate

SpecReplay == Init /\ [][NextReplay]_vars

-----------------------------------------------------------------------------
\* The content index: one GameMap on a small grid, entities registered and
\* cleared turn by turn.

InitIndex ==
    /\ rooms = <<>>
    /\ width = 0
    /\ height = 0
    /\ tiles = [c \in Cells(0, 0) |-> WALL]
    /\ blocked = [c \in Cells(0, 0) |-> FALSE]
    /\ visible = [c \in Cells(0, 0) |-> FALSE]
    /\ explored = [c \in Cells(0, 0) |-> FALSE]
    /\ tile_content = [i \in 0..(-1) |-> <<>>]
    /\ pc = "idle"
    /\ attempt = 0
    /\ maps = 0
    /\ combat_stats \in SUBSET Entities
    /\ draws = <<>>
    /\ first = <<>>
    /\ registered = {}
    /\ wiped = 0
    /\ entities = <<>>
    /\ fighter_hp = <<>>
    /\ outcome = [call |-> "none", raised |-> "none", value |-> <<>>]
    /\ expected = <<>>
    /\ origin = <<>>

IndexConstruct ==
    /\ maps = 0
    /\ NewGameMap(IndexWidth, IndexHeight)
    /\ UNCHANGED history
    /\ UNCHANGED entity_state

\* The entities with combat stats that the content index holds.
combat_entries ==
    {p \in (DOMAIN tile_content) \X Entities :
        /\ has_combat_stats(p[2])
        /\ \E k \in 1..Len(tile_content[p[1]]) : tile_content[p[1]][k] = p[2]}

ClearContentIndex ==
    /\ clear_content_index
    /\ registered' = {}
    /\ wiped' = Cardinality(combat_entries)
    /\ UNCHANGED <<draws, first>>
    /\ UNCHANGED entity_state

Register ==
    \E entity \in Entities, x \in 0..(width - 1), y \in 0..(height - 1) :
        /\ register(entity, x, y)
        /\ registered' = registered \cup {<<entity, idx(x, y)>>}
        /\ UNCHANGED <<draws, first, wiped>>
        /\ UNCHANGED entity_state

NextIndex ==
    \/ IndexConstruct
    \/ GenerateRaises
    \/ Generate
    \/ PopulateBlocked
    \/ ClearContentIndex
    \/ Register

SpecIndex == InitIndex /\ [][NextIndex]_vars

-----------------------------------------------------------------------------
\* Properties of the generator (specification Spec)

\* C1: in every state, whatever maps were constructed before, no two distinct
\* rooms of the rooms list intersect under the inclusive-bounds test.
C1_NoTwoRoomsIntersect ==
    \A i, j \in 1..Len(rooms) : i # j => ~intersects(rooms[i], rooms[j])

\* A second construction has returned and the list holds rooms of both
\* constructions (one construction accepts at most MAX_ROOMS).
C1_Witness == pc = "done" /\ maps = 2 /\ Len(rooms) = MAX_ROOMS + 1

\* The cells a path of orthogonally adjacent FLOOR cells reaches from the cells
\* of reached.
is_floor(c) == c \in DOMAIN tiles /\ tiles[c] = FLOOR

adjacent(c, d) ==
    \/ c[1] = d[1] /\ (c[2] = d[2] + 1 \/ d[2] = c[2] + 1)
    \/ c[2] = d[2] /\ (c[1] = d[1] + 1 \/ d[1] = c[1] + 1)

RECURSIVE floor_reach(_)
floor_reach(reached) ==
    LET more == reached \cup
                {c \in DOMAIN tiles :
                    tiles[c] = FLOOR /\ \E d \in reached : adjacent(c, d)}
    IN IF more = reached THEN reached ELSE floor_reach(more)

floor_path(a, b) == is_floor(a) /\ is_floor(b) /\ b \in floor_reach({a})

C3_RoomCountWithinMaxRooms ==
    pc = "done" => 1 <= Len(rooms) /\ Len(rooms) <= MAX_ROOMS

\* C4: when a construction has returned, this map's tiles hold FLOOR in the
\* inner rectangle of every room of the rooms list.
C4_InnerIsFloor ==
    pc = "done" =>
        \A i \in 1..Len(rooms) : \A c \in inner(rooms[i]) : is_floor(c)

\* C6: no iteration of generate_map raises, and a construction that has
\* returned has made exactly MAX_ROOMS attempts.
C6_TerminatesNormally ==
    /\ pc # "error"
    /\ pc = "done" => attempt = MAX_ROOMS

\* Whether the blocked layer is the one the tiles determine.
blocked_derived ==
    /\ DOMAIN blocked = DOMAIN tiles
    /\ \A x \in 0..(width - 1), y \in 0..(height - 1) :
           is_blocked(x, y) = (tiles[<<x, y>>] = WALL)

\* C8: in the state in which the constructor returns, is_blocked(x, y) is true
\* exactly when tiles[x, y] is WALL, for every in-bounds (x, y).
C8_BlockedDerivedOnReturn ==
    [][(pc = "gen" /\ pc' = "done") => blocked_derived']_vars

\* The in-bounds cells, picked by in_bounds out of a window around the grid.
in_bounds_cells ==
    {c \in ((-1)..width) \X ((-1)..height) : in_bounds(c[1], c[2])}

\* C9: idx maps the in-bounds cells one-to-one onto 0..width*height-1, which is
\* the slot range of tile_content.
C9_IdxInjective ==
    LET image == {idx(c[1], c[2]) : c \in in_bounds_cells} IN
    /\ Cardinality(image) = Cardinality(in_bounds_cells)
    /\ image = 0..(width * height - 1)
    /\ image = DOMAIN tile_content

\* A grid whose width and height differ.
C9_Witness == pc = "done" /\ width = MaxWidth /\ height = MIN_SIZE + 1

-----------------------------------------------------------------------------
\* Properties of replayed constructions (specification SpecReplay)

\* C5: a construction that has returned, given the width, the height and the
\* draws of the first construction, has the tiles and the rooms list the first
\* construction had when it returned.
C5_SameDrawsSameMap ==
    (/\ pc = "done"
     /\ first # <<>>
     /\ width = first[1].width
     /\ height = first[1].height
     /\ draws = first[1].draws)
        => (tiles = first[1].tiles /\ rooms = first[1].rooms)

-----------------------------------------------------------------------------
\* Properties of the blocked layer and the content index (specification
\* SpecIndex)

\* C7: a call of populate_blocked leaves blocked[x, y] = (tiles[x, y] = WALL)
\* for every in-bounds (x, y), changes none of tiles, rooms, tile_content,
\* visible and explored, and changes nothing when the layer was already the
\* derived one (a second call in a row).
C7_PopulateBlocked ==
    [][populate_blocked =>
          /\ blocked_derived'
          /\ UNCHANGED <<tiles, rooms, tile_content, visible, explored>>
          /\ (blocked_derived => blocked' = blocked)]_vars

\* populate_blocked has run on a map with FLOOR and WALL cells and a non-empty
\* content index.
C7_Witness ==
    /\ pc = "done"
    /\ blocked_derived
    /\ \E c \in DOMAIN tiles : tiles[c] = FLOOR
    /\ \E c \in DOMAIN tiles : blocked[c]
    /\ content_size(DOMAIN tile_content) > 0

\* C10: the index keeps its width*height slots; it holds no entry from before
\* the last clear_content_index; and after a clear, until an entity is
\* registered, every slot is empty and get_target_at_location returns None for
\* every in-bounds (x, y).
C10_ClearedIndexIsEmpty ==
    /\ DOMAIN tile_content = 0..(width * height - 1)
    /\ \A i \in DOMAIN tile_content :
           \A k \in 1..Len(tile_content[i]) : <<tile_content[i][k], i>> \in registered
    /\ \A x \in 0..(width - 1), y \in 0..(height - 1) :
           /\ in_bounds(x, y)
           /\ registered = {} =>
                  /\ tile_content[idx(x, y)] = <<>>
                  /\ get_target_at_location(x, y) = None
           /\ get_target_at_location(x, y) # None =>
                  <<get_target_at_location(x, y), idx(x, y)>> \in registered

\* clear_content_index has removed an entity with combat stats and nothing has
\* been registered since.
C10_Witness == pc = "done" /\ wiped > 0 /\ registered = {}

\* C11: for every in-bounds (x, y), get_target_at_location(x, y) is the entity
\* at the least position of tile_content[idx(x, y)] that has combat stats, and
\* None when that list holds no such entity; so what it returns is an entry of
\* that tile's own list.  (The query is a scan without a write: it is the
\* operator get_target_at_location, which changes no variable.)
C11_FirstTargetOfTile ==
    \A x \in (-1)..width, y \in (-1)..height :
        in_bounds(x, y) =>
            LET content == tile_content[idx(x, y)]
                target == get_target_at_location(x, y)
                hits == {k \in 1..Len(content) : content[k] \in combat_stats}
            IN /\ hits = {} => target = None
               /\ hits # {} =>
                      \E k \in hits :
                          /\ target = content[k]
                          /\ \A j \in hits : k <= j

\* A tile holds two different entities that both have combat stats.
C11_Witness ==
    /\ pc = "done"
    /\ \E i \in DOMAIN tile_content :
           /\ Len(tile_content[i]) = 2
           /\ tile_content[i][1] # tile_content[i][2]
           /\ tile_content[i][1] \in combat_stats
           /\ tile_content[i][2] \in combat_stats

-----------------------------------------------------------------------------
\* Entities (src/game/entity.py) on top of game.node.Node.

\* The capability kinds an Actor carries (entity.py:85-87).
Kinds == {"BaseAI", "Fighter", "Inventory"}
\* The reference of no object: try_get's None.
NoRef == 0
\* What Entity.parent is: None, or the GameMap of an Engine.
Parents == {"None", "GameMap"}
\* The hit points of a Fighter as it is handed to Actor.__init__.
FullHp == 1
\* The coordinates entities are given and the deltas they are moved by; -1 is
\* outside of every grid.
Coords == (-1)..MaxCoord
Deltas == {-1, 0, 1}
\* The entities that exist.
Ids == 1..Len(entities)

\* Node.try_get(kind): the capability of that kind among the node's own
\* attached children, None when there is none.
try_get(e, kind) == entities[e].children[kind]

\* Mutant of is_alive: the Fighter is looked up.
is_alive_by_fighter(e) == try_get(e, "Fighter") # NoRef

\* Actor.is_alive (entity.py:113-116).
is_alive(e) == try_get(e, "BaseAI") # NoRef

\* Actor.__init__ (entity.py:77-103): an Entity at (x, y) without a parent that
\* blocks movement, with a new AI, the given Fighter and a new Inventory
\* attached.  The objects created for entity n carry the reference n.
Actor(x, y) ==
    LET n == Len(entities) + 1
    IN /\ entities' = Append(entities,
                             [x |-> x, y |-> y, parent |-> "None",
                              blocks_movement |-> TRUE,
                              children |-> [k \in Kinds |-> n]])
       /\ fighter_hp' = Append(fighter_hp, FullHp)
       /\ UNCHANGED <<outcome, gamemap_state>>

\* Mutant of spawn: a shallow copy, which shares the capability objects.
spawn_shallow(t, gamemap, x, y) ==
    /\ entities' = Append(entities, [entities[t] EXCEPT !.x = x, !.y = y,
                                                        !.parent = gamemap])
    /\ fighter_hp' = Append(fighter_hp, 0)
    /\ UNCHANGED <<outcome, gamemap_state>>

\* Entity.spawn (entity.py:50-56): copy.deepcopy makes a new object for the
\* entity and for each capability attached to it, with the same contents; the
\* copy is then given its coordinates and its parent.
spawn(t, gamemap, x, y) ==
    LET n == Len(entities) + 1
        fighter == try_get(t, "Fighter")
    IN /\ entities' = Append(entities,
               [entities[t] EXCEPT
                    !.x = x, !.y = y, !.parent = gamemap,
                    !.children = [k \in Kinds |->
                                     IF @[k] = NoRef THEN NoRef ELSE n]])
       /\ fighter_hp' = Append(fighter_hp,
               IF fighter = NoRef THEN 0 ELSE fighter_hp[fighter])
       /\ UNCHANGED <<outcome, gamemap_state>>

\* Entity.place (entity.py:58-62).
place(e, x, y, gamemap) ==
    /\ entities' = [entities EXCEPT ![e].x = x, ![e].y = y,
                                    ![e].parent = gamemap]
    /\ UNCHANGED <<fighter_hp, outcome, gamemap_state>>

\* Mutant of move: the entity stays at coordinates that are not negative.
move_clamped(e, dx, dy) ==
    /\ entities' = [entities EXCEPT ![e].x = Max(0, @ + dx),
                                    ![e].y = Max(0, @ + dy)]
    /\ UNCHANGED <<fighter_hp, outcome, gamemap_state>>

\* Entity.move (entity.py:70-73).
move(e, dx, dy) ==
    /\ entities' = [entities EXCEPT ![e].x = @ + dx, ![e].y = @ + dy]
    /\ UNCHANGED <<fighter_hp, outcome, gamemap_state>>

\* Node: a new capability of that kind is attached to the entity; it replaces
\* the one attached before.
attach(e, kind) ==
    /\ entities' = [entities EXCEPT ![e].children[kind] = e]
    /\ fighter_hp' = IF kind = "Fighter"
                       THEN [fighter_hp EXCEPT ![e] = FullHp]
                       ELSE fighter_hp
    /\ UNCHANGED <<outcome, gamemap_state>>

\* Node: the capability of that kind is detached from the entity; nothing
\* happens when there is none.
detach(e, kind) ==
    /\ entities' = [entities EXCEPT ![e].children[kind] = NoRef]
    /\ UNCHANGED <<fighter_hp, outcome, gamemap_state>>

\* A mutation of the entity's Fighter: its hit points are set.
set_hp(e, hp) ==
    /\ try_get(e, "Fighter") # NoRef
    /\ fighter_hp' = [fighter_hp EXCEPT ![try_get(e, "Fighter")] = hp]
    /\ UNCHANGED <<entities, outcome, gamemap_state>>

-----------------------------------------------------------------------------
\* Actions (src/game/action.py).  The entity of an Action is entity e.

\* The methods class GameMap defines (gamemap.py:28-118).
GameMapMethods ==
    {"__init__", "idx", "__tunnel_between__", "generate_map", "in_bounds",
     "is_blocked", "populate_blocked", "clear_content_index",
     "get_target_at_location"}

\* What evaluating a property or calling a method leaves in outcome.
returned(call, value) == [call |-> call, raised |-> "none", value |-> value]
raised(call, error) == [call |-> call, raised |-> error, value |-> <<>>]

\* Mutant of Action.perform: the method returns.
Action_perform_passes(e) ==
    /\ outcome' = returned("Action.perform", <<>>)
    /\ UNCHANGED <<entities, fighter_hp, gamemap_state>>

\* Action.perform (action.py:16-21).
Action_perform(e) ==
    /\ outcome' = raised("Action.perform", "NotImplementedError")
    /\ UNCHANGED <<entities, fighter_hp, gamemap_state>>

\* ActionWithDirection.perform (action.py:46-47).
ActionWithDirection_perform(e, dx, dy) ==
    /\ outcome' = raised("ActionWithDirection.perform", "NotImplementedError")
    /\ UNCHANGED <<entities, fighter_hp, gamemap_state>>

\* Wait.perform (action.py:50-52).
Wait_perform(e) ==
    /\ outcome' = returned("Wait.perform", <<>>)
    /\ UNCHANGED <<entities, fighter_hp, gamemap_state>>

\* ActionWithDirection.dest_xy (action.py:31-34).
dest_xy(e, dx, dy) == <<entities[e].x + dx, entities[e].y + dy>>

\* The property dest_xy is evaluated.
eval_dest_xy(e, dx, dy) ==
    /\ outcome' = returned("dest_xy", dest_xy(e, dx, dy))
    /\ UNCHANGED <<entities, fighter_hp, gamemap_state>>

\* The property blocking_entity is evaluated (action.py:36-39).  Action.engine
\* (action.py:12-14) finds the Engine above the entity when the entity's parent
\* is the Engine's GameMap and fails when the entity has no parent; the map
\* is then asked for get_blocking_entity_at, an attribute the class GameMap
\* does not have.
blocking_entity(e, dx, dy) ==
    /\ outcome' =
           IF entities[e].parent = "None"
             THEN raised("blocking_entity", "MissingParent")
             ELSE IF "get_blocking_entity_at" \in GameMapMethods
                    THEN returned("blocking_entity", <<>>)
                    ELSE raised("blocking_entity", "AttributeError")
    /\ UNCHANGED <<entities, fighter_hp, gamemap_state>>

-----------------------------------------------------------------------------
\* The calls made on entities, with the history they leave.

Constructed(x, y) ==
    /\ Actor(x, y)
    /\ expected' = Append(expected, [x |-> x, y |-> y, parent |-> "None",
                                     placed |-> FALSE, ai |-> TRUE])
    /\ origin' = Append(origin, 0)
    /\ UNCHANGED history

Spawned(t, gamemap, x, y) ==
    /\ spawn(t, gamemap, x, y)
    /\ expected' = Append(expected, [x |-> x, y |-> y, parent |-> gamemap,
                                     placed |-> FALSE, ai |-> expected[t].ai])
    /\ origin' = Append(origin, t)
    /\ UNCHANGED history

Placed(e, x, y, gamemap) ==
    /\ place(e, x, y, gamemap)
    /\ expected' = [expected EXCEPT ![e].x = x, ![e].y = y,
                                    ![e].parent = gamemap, ![e].placed = TRUE]
    /\ UNCHANGED <<origin, history>>

Moved(e, dx, dy) ==
    /\ move(e, dx, dy)
    /\ expected' = [expected EXCEPT ![e].x = @ + dx, ![e].y = @ + dy]
    /\ UNCHANGED <<origin, history>>

Attached(e, kind) ==
    /\ attach(e, kind)
    /\ expected' = [expected EXCEPT ![e].ai = @ \/ kind = "BaseAI"]
    /\ UNCHANGED <<origin, history>>

Detached(e, kind) ==
    /\ detach(e, kind)
    /\ expected' = [expected EXCEPT ![e].ai = @ /\ kind # "BaseAI"]
    /\ UNCHANGED <<origin, history>>

HpSet(e, hp) ==
    /\ set_hp(e, hp)
    /\ UNCHANGED <<expected, origin, history>>

\* The moves that keep both coordinates among Coords.
Steps(e) ==
    {d \in Deltas \X Deltas :
        entities[e].x + d[1] \in Coords /\ entities[e].y + d[2] \in Coords}

-----------------------------------------------------------------------------
\* One Actor: it is constructed, placed, moved, its capabilities are attached,
\* detached and mutated, and Actions are performed on it.

ActorConstruct ==
    /\ Len(entities) = 0
    /\ \E x \in 0..MaxCoord, y \in 0..MaxCoord : Constructed(x, y)

ActorPlace ==
    \E e \in Ids, x \in 0..MaxCoord, y \in 0..MaxCoord, gamemap \in Parents :
        Placed(e, x, y, gamemap)

ActorMove == \E e \in Ids : \E d \in Steps(e) : Moved(e, d[1], d[2])

ActorAttach == \E e \in Ids, kind \in Kinds : Attached(e, kind)

ActorDetach == \E e \in Ids, kind \in Kinds : Detached(e, kind)

ActorSetHp == \E e \in Ids, hp \in 0..FullHp : HpSet(e, hp)

PerformAction ==
    /\ \E e \in Ids : Action_perform(e)
    /\ UNCHANGED <<expected, origin, history>>

PerformActionWithDirection ==
    /\ \E e \in Ids, dx \in Deltas, dy \in Deltas :
           ActionWithDirection_perform(e, dx, dy)
    /\ UNCHANGED <<expected, origin, history>>

PerformWait ==
    /\ \E e \in Ids : Wait_perform(e)
    /\ UNCHANGED <<expected, origin, history>>

EvalDestXy ==
    /\ \E e \in Ids, dx \in Deltas, dy \in Deltas : eval_dest_xy(e, dx, dy)
    /\ UNCHANGED <<expected, origin, history>>

EvalBlockingEntity ==
    /\ \E e \in Ids, dx \in Deltas, dy \in Deltas : blocking_entity(e, dx, dy)
    /\ UNCHANGED <<expected, origin, history>>

NextActor ==
    \/ ActorConstruct
    \/ ActorPlace
    \/ ActorMove
    \/ ActorAttach
    \/ ActorDetach
    \/ ActorSetHp
    \/ PerformAction
    \/ PerformActionWithDirection
    \/ PerformWait
    \/ EvalDestXy
    \/ EvalBlockingEntity

SpecActor == Init /\ [][NextActor]_vars

-----------------------------------------------------------------------------
\* Claims about Actions and about one Actor.

\* A step leaves every entity, every Fighter and the map as they were.
world_unchanged ==
    /\ entities' = entities
    /\ fighter_hp' = fighter_hp
    /\ UNCHANGED gamemap_state

\* C12: for an ActionWithDirection(entity, dx, dy) on an Actor at (x, y) whose
\* parent is the map of an Engine, evaluating dest_xy returns (x + dx, y + dy),
\* evaluating blocking_entity returns (the first blocking entity at dest_xy or
\* nothing), and neither evaluation raises an error or changes the actor or
\* the map.
C12_DirectionPropertiesReturn ==
    [][\A e \in Ids, dx \in Deltas, dy \in Deltas :
           entities[e].parent = "GameMap" =>
               /\ eval_dest_xy(e, dx, dy) =>
                      /\ outcome'.raised = "none"
                      /\ outcome'.value = <<entities[e].x + dx,
                                            entities[e].y + dy>>
                      /\ world_unchanged
               /\ blocking_entity(e, dx, dy) =>
                      /\ outcome'.raised = "none"
                      /\ world_unchanged]_vars

\* C13: an Actor is alive exactly when an AI capability is attached to it: it
\* is alive once constructed, not alive once its AI has been detached and alive
\* again once one has been attached, whatever its Fighter, its Inventory, its
\* position and its parent are.
C13_AliveIffAiAttached ==
    \A e \in Ids : is_alive(e) <=> expected[e].ai

\* An Actor on a map that still has its Fighter and its Inventory and has lost
\* its AI.
C13_Witness ==
    \E e \in Ids :
        /\ ~is_alive(e)
        /\ try_get(e, "Fighter") # NoRef
        /\ try_get(e, "Inventory") # NoRef
        /\ entities[e].parent = "GameMap"

\* C15: perform on a bare Action and on a bare ActionWithDirection ends in
\* NotImplementedError, Wait.perform returns, and none of the three changes an
\* entity, a capability or the map.
C15_PerformOutcomes ==
    [][\A e \in Ids :
           /\ Action_perform(e) =>
                  outcome'.raised = "NotImplementedError" /\ world_unchanged
           /\ \A dx \in Deltas, dy \in Deltas :
                  ActionWithDirection_perform(e, dx, dy) =>
                      outcome'.raised = "NotImplementedError" /\ world_unchanged
           /\ Wait_perform(e) =>
                  outcome'.raised = "none" /\ world_unchanged]_vars

\* perform was called on a bare Action of an Actor placed on a map.
C15_Witness ==
    /\ outcome.call = "Action.perform"
    /\ outcome.raised = "NotImplementedError"
    /\ \E e \in Ids : expected[e].placed /\ entities[e].parent = "GameMap"

\* C16: an entity is at the coordinates of its most recent place plus the
\* deltas of the moves since, its parent is the map that place was given, place
\* creates no entity, and move adds its deltas to x and y, also when that
\* leaves every grid, and changes nothing else.
C16_PlaceAndMove ==
    /\ [](\A e \in Ids :
              /\ entities[e].x = expected[e].x
              /\ entities[e].y = expected[e].y
              /\ expected[e].placed => entities[e].parent = expected[e].parent)
    /\ [][\A e \in Ids :
              /\ \A x \in Coords, y \in Coords, gamemap \in Parents :
                     place(e, x, y, gamemap) => Len(entities') = Len(entities)
              /\ \A dx \in Deltas, dy \in Deltas :
                     move(e, dx, dy) =>
                         /\ entities' = [entities EXCEPT
                                ![e].x = entities[e].x + dx,
                                ![e].y = entities[e].y + dy]
                         /\ fighter_hp' = fighter_hp
                         /\ UNCHANGED gamemap_state]_vars

\* An entity was placed on a map and then moved off every grid.
C16_Witness ==
    \E e \in Ids :
        /\ expected[e].placed
        /\ entities[e].parent = "GameMap"
        /\ entities[e].x = -1

-----------------------------------------------------------------------------
\* Templates and clones: one Actor is constructed and entities are spawned from
\* it and from its clones; all of them are then placed and moved along the row
\* y = 0 and their Fighters are detached, attached and mutated.

MaxSpawned == 1 + MaxClones

SpawnConstruct ==
    /\ Len(entities) = 0
    /\ Constructed(0, 0)

Spawn ==
    /\ Len(entities) < MaxSpawned
    /\ \E t \in Ids, x \in 0..MaxCoord : Spawned(t, "GameMap", x, 0)

\* An entity is taken off its map: place without a map.
SpawnPlace == \E e \in Ids : Placed(e, 0, 0, "None")

SpawnMove ==
    \E e \in Ids : \E d \in Steps(e) :
        d[1] # 0 /\ d[2] = 0 /\ Moved(e, d[1], 0)

SpawnAttach == \E e \in Ids : Attached(e, "Fighter")

SpawnDetach == \E e \in Ids : Detached(e, "Fighter")

SpawnSetHp == \E e \in Ids, hp \in 0..FullHp : HpSet(e, hp)

NextSpawn ==
    \/ SpawnConstruct
    \/ Spawn
    \/ SpawnPlace
    \/ SpawnMove
    \/ SpawnAttach
    \/ SpawnDetach
    \/ SpawnSetHp

SpecSpawn == Init /\ [][NextSpawn]_vars

\* What can be seen of an entity: its position, its parent, and for each kind
\* of capability whether one is attached and, for a Fighter, its hit points.
view(e) ==
    [x |-> entities[e].x, y |-> entities[e].y, parent |-> entities[e].parent,
     capabilities |->
         [k \in Kinds |->
             IF try_get(e, k) = NoRef THEN -1
             ELSE IF k = "Fighter" THEN fighter_hp[try_get(e, k)] ELSE 1]]

\* In the step, entity e is moved along the row or placed on it, or one of its
\* capabilities is attached, detached or mutated.
touched(e) ==
    \/ \E dx \in Deltas : move(e, dx, 0)
    \/ \E x \in Coords, gamemap \in Parents : place(e, x, 0, gamemap)
    \/ \E kind \in Kinds : attach(e, kind) \/ detach(e, kind)
    \/ \E hp \in 0..FullHp : set_hp(e, hp)

\* C14: spawn(map, x, y) makes a new entity at (x, y) whose parent is map and
\* whose capabilities look like the template's, and leaves every existing
\* entity as it was; a move, a place, or an attach, detach or mutation of a
\* capability of one entity leaves every other entity as it was, its template
\* and its clones included.
C14_SpawnedIsIndependent ==
    [][/\ \A n \in {Len(entities) + 1} :
              (Len(origin') = n /\ origin'[n] # 0) =>
                  /\ Len(entities') = n
                  /\ \A o \in Ids : view(o)' = view(o)
                  /\ view(n)' = [view(origin'[n]) EXCEPT
                                     !.x = expected'[n].x,
                                     !.y = expected'[n].y,
                                     !.parent = expected'[n].parent]
       /\ \A e \in Ids :
              (\E o \in Ids \ {e} : view(o)' # view(o)) => ~touched(e)]_vars

\* A clone's Fighter was hurt and its template's Fighter still has its full hit
\* points, and the template moved away from where it was constructed.
C14_Witness ==
    \E c \in Ids :
        /\ origin[c] # 0
        /\ view(c).capabilities["Fighter"] = 0
        /\ view(origin[c]).capabilities["Fighter"] = FullHp
        /\ view(origin[c]).x # 0

-----------------------------------------------------------------------------
\* Claims about what generation writes.

\* Every cell that differs between the two grids was WALL and is FLOOR.
only_carved(before, after) ==
    /\ DOMAIN after = DOMAIN before
    /\ \A c \in DOMAIN before :
           after[c] # before[c] => before[c] = WALL /\ after[c] = FLOOR

\* C17: an iteration of generate_map either leaves the tiles and the rooms
\* list as they were (its candidate was rejected), or appends exactly one Rect
\* to the end of rooms and changes cells from WALL to FLOOR only (its candidate
\* was accepted), and a candidate that intersects a room of the list is never
\* accepted.
C17_AttemptRejectsOrAppends ==
    [][pc = "gen" =>
           \/ tiles' = tiles /\ rooms' = rooms
           \/ /\ Len(rooms') = Len(rooms) + 1
              /\ SubSeq(rooms', 1, Len(rooms)) = rooms
              /\ \A i \in 1..Len(rooms) :
                     ~intersects(rooms'[Len(rooms')], rooms[i])
              /\ only_carved(tiles, tiles')]_vars

\* v lies between a and b, both included.
between(v, a, b) == Min(a, b) <= v /\ v <= Max(a, b)

\* Cell c is on one of the two L-shaped paths between the cells a and b: on
\* the row or the column of a or of b, between a, b and the bend.
on_corridor(c, a, b) ==
    \/ (c[2] = a[2] \/ c[2] = b[2]) /\ between(c[1], a[1], b[1])
    \/ (c[1] = a[1] \/ c[1] = b[1]) /\ between(c[2], a[2], b[2])

\* C18: after generation, every FLOOR cell of the grid is in the inner
\* rectangle of a room of the rooms list or on the L-shaped corridor between
\* the centers of two consecutive rooms; every other cell is WALL.
C18_FloorIsRoomOrCorridor ==
    pc = "done" =>
        \A c \in DOMAIN tiles :
            tiles[c] = FLOOR =>
                \/ \E i \in 1..Len(rooms) : c \in inner(rooms[i])
                \/ \E i \in 1..(Len(rooms) - 1) :
                       on_corridor(c, center(rooms[i]), center(rooms[i + 1]))

\* A first map whose two rooms are joined by a corridor that bends, with a
\* FLOOR cell that is in no room.
C18_Witness ==
    /\ pc = "done"
    /\ maps = 1
    /\ Len(rooms) = 2
    /\ center(rooms[1])[1] # center(rooms[2])[1]
    /\ center(rooms[1])[2] # center(rooms[2])[2]
    /\ \E c \in DOMAIN tiles :
           /\ tiles[c] = FLOOR
           /\ \A i \in 1..Len(rooms) : c \notin inner(rooms[i])

\* The outermost ring of the grid.
ring ==
    {c \in DOMAIN tiles :
        c[1] = 0 \/ c[1] = width - 1 \/ c[2] = 0 \/ c[2] = height - 1}

\* C19: generation writes inside the grid and off its border only, so that after
\* generation every cell of the outermost ring of the grid (x = 0,
\* x = width - 1, y = 0, y = height - 1) is WALL.
C19_RingIsWall ==
    pc = "done" => \A c \in ring : tiles[c] = WALL

====
